---- MODULE Spec2Model ----
(***************************************************************************)
(* Model of green_screen_remover.py: the compositor advanced_chroma_key    *)
(* (specification Spec) and the capture / background / write loop of main  *)
(* (specification SpecMain).                                               *)
(*                                                                         *)
(* Number representation.  Pixels are triples <<b, g, r>> of 8-bit values  *)
(* (index 1 = code channel 0 = blue, 2 = green, 3 = red).  float32 values  *)
(* are kept exactly as scaled integers: a mask value m is stored as        *)
(* m * MaskOne, a value of frame_no_spill as v * FixOne, and the strength  *)
(* spill_suppress as a number of SpillDen-ths.  The feather radii and      *)
(* strengths the model draws are those for which every float32 operation   *)
(* of the code is exact (dyadic kernels of cv2.GaussianBlur for ksize      *)
(* 1 and 3 with sigma 0, and strengths k/4), so the scaled integers are    *)
(* the float32 values of the program, not approximations of them.          *)
(***************************************************************************)
EXTENDS Integers, Sequences, FiniteSets, TLC

VARIABLES
    \* ---- advanced_chroma_key ----
    pc,              \* position in advanced_chroma_key
    frame,           \* the caller's frame array   [h, w, px]
    bg,              \* the caller's background array
    frame_in,        \* contents of frame at the call (history)
    bg_in,           \* contents of bg at the call (history)
    feather_radius,  \* parameter
    spill_suppress,  \* parameter, in SpillDen-ths
    mask,            \* local  mask      (scaled by MaskOne)
    frame_no_spill,  \* local  frame_no_spill (scaled by FixOne)
    pre_spill,       \* frame_no_spill as it was before line 51 (history)
    result,          \* returned array, or raised exception
    \* ---- main ----
    mpc,             \* position in main
    cap_len,         \* frames the video source will deliver
    cap_pos,         \* frames read from the source so far
    cur,             \* main's `frame`: [idx, shape]
    frame_shape,     \* shape of the first frame
    bg_img,          \* shape of the loaded background image
    bgv_len,         \* frames in the background video (0: not opened)
    bgv_pos,         \* read position of bg_vid_cap
    bg_mode,         \* 0 image, 1 video, 2 black
    mbg,             \* main's `bg`: [kind, idx, shape]
    ret_bg,          \* main's ret_bg
    bg_reads,        \* reads of bg_vid_cap in this iteration (history)
    calls,           \* frame indices passed to advanced_chroma_key (history)
    mresult,         \* main's `result`
    written          \* frame indices whose result was written to `out`

cvars == <<pc, frame, bg, frame_in, bg_in, feather_radius, spill_suppress,
           mask, frame_no_spill, pre_spill, result>>
mvars == <<mpc, cap_len, cap_pos, cur, frame_shape, bg_img, bgv_len, bgv_pos,
           bg_mode, mbg, ret_bg, bg_reads, calls, mresult, written>>
vars == <<cvars, mvars>>

----------------------------------------------------------------------------
(* Bounds of the model *)
MaxH == 3          \* frame heights 1..MaxH
MaxW == 4          \* frame widths  1..MaxW
MaxFrames == 5     \* frames the video source delivers
MaxBgFrames == 2   \* frames of the background video

(* Units of the exact fixed-point representation *)
MaskOne == 16 * 16     \* mask 1.0  (two passes of a kernel in 16ths)
FixOne == 2 * 4        \* frame_no_spill 1.0 (halves times quarters)
SpillDen == 2 * 2      \* spill_suppress 1.0

None == "None"

Min2(a, b) == IF a < b THEN a ELSE b
Max2(a, b) == IF a > b THEN a ELSE b

----------------------------------------------------------------------------
(* Module-level parameters, lines 11-12 *)
GREEN_LOWER == <<40, 100, 50>>
GREEN_UPPER == <<80, 255, 255>>

(* Arrays *)
Cells(h, w) == (1..h) \X (1..w)
Shape(a) == <<a.h, a.w>>

(* cvRound(n / d) for n >= 0, d > 0: round half to even *)
RoundHalfEven(n, d) ==
    LET q == n \div d
        r == n % d
    IN  IF 2 * r > d \/ (2 * r = d /\ q % 2 = 1) THEN q + 1 ELSE q

(* OpenCV's 8-bit BGR -> HSV tables (hsv_shift = 12, hue range 180) *)
sdiv_table(i) == IF i = 0 THEN 0 ELSE RoundHalfEven(255 * 4096, i)
hdiv_table180(i) == IF i = 0 THEN 0 ELSE RoundHalfEven(180 * 4096, 6 * i)

(* cv2.cvtColor(frame, cv2.COLOR_BGR2HSV) on one 8-bit pixel *)
BGR2HSV(p) ==
    LET b == p[1]
        g == p[2]
        r == p[3]
        v == Max2(b, Max2(g, r))
        vmin == Min2(b, Min2(g, r))
        diff == v - vmin
        s == (diff * sdiv_table(v) + 2048) \div 4096
        hraw == IF v = r THEN g - b
                ELSE IF v = g THEN b - r + 2 * diff
                ELSE r - g + 4 * diff
        h1 == (hraw * hdiv_table180(diff) + 2048) \div 4096
        h == IF h1 < 0 THEN h1 + 180 ELSE h1
    IN  <<h, s, v>>

(* cv2.inRange on one pixel: 255 inside the inclusive range, else 0 *)
InRange(hsv, lo, hi) ==
    IF \A c \in 1..3 : lo[c] <= hsv[c] /\ hsv[c] <= hi[c] THEN 255 ELSE 0

----------------------------------------------------------------------------
(* variant of Normalize: the division by 255.0 left out *)
NormalizeNoDivision(v) == v * MaskOne

(* Line 39: cv2.inRange(hsv, lower, upper).astype(np.float32) / 255.0 *)
Normalize(v) == (v * MaskOne) \div 255

ThresholdMask(f, lo, hi) ==
    [c \in Cells(f.h, f.w) |-> Normalize(InRange(BGR2HSV(f.px[c]), lo, hi))]

(* cv2.getGaussianKernel with sigma = 0, ksize 1 and 3: the fixed kernels
   <<1>> and <<0.25, 0.5, 0.25>> of small_gaussian_tab, in 16ths *)
GaussianKernel(ksize) == IF ksize = 1 THEN <<16>> ELSE <<4, 8, 4>>

(* cv::borderInterpolate(p, len, BORDER_REFLECT_101), 0-based *)
RECURSIVE BorderReflect101(_, _)
BorderReflect101(p, len) ==
    IF len = 1 THEN 0
    ELSE IF p < 0 THEN BorderReflect101(0 - p, len)
    ELSE IF p >= len THEN BorderReflect101(2 * (len - 1) - p, len)
    ELSE p

RECURSIVE SumTaps(_, _, _)
(* sum over taps t = n..1 of kernel[t] * at(t) *)
SumTaps(kernel, at, n) ==
    IF n = 0 THEN 0 ELSE kernel[n] * at[n] + SumTaps(kernel, at, n - 1)

(* Line 40: cv2.GaussianBlur(mask, (k, k), 0): a row pass and a column
   pass of the same kernel; a dimension of length 1 is not filtered *)
BlurRows(m, h, w, ksize) ==
    LET kw == IF w = 1 THEN 1 ELSE ksize
        kernel == GaussianKernel(kw)
        half == (kw - 1) \div 2
    IN  [c \in Cells(h, w) |->
            SumTaps(kernel,
                    [t \in 1..kw |->
                        m[<<c[1], BorderReflect101(c[2] - 1 + t - 1 - half, w) + 1>>]],
                    kw) \div 16]

BlurCols(m, h, w, ksize) ==
    LET kh == IF h = 1 THEN 1 ELSE ksize
        kernel == GaussianKernel(kh)
        half == (kh - 1) \div 2
    IN  [c \in Cells(h, w) |->
            SumTaps(kernel,
                    [t \in 1..kh |->
                        m[<<BorderReflect101(c[1] - 1 + t - 1 - half, h) + 1, c[2]>>]],
                    kh) \div 16]

GaussianBlur(m, h, w, ksize) == BlurCols(BlurRows(m, h, w, ksize), h, w, ksize)

(* Line 41: np.clip(mask, 0, 1) *)
ClipValue(v) == Min2(Max2(v, 0), MaskOne)
Clip(m) == [c \in DOMAIN m |-> ClipValue(m[c])]

(* 3x3 neighbourhood inside the image: cv2.erode / cv2.dilate use
   BORDER_CONSTANT with morphologyDefaultBorderValue, so pixels outside the
   image never decide a minimum or a maximum *)
Neighbours(c, h, w) ==
    {d \in Cells(h, w) : d[1] - c[1] \in -1..1 /\ d[2] - c[2] \in -1..1}

SetMin(S) == CHOOSE x \in S : \A y \in S : x <= y
SetMax(S) == CHOOSE x \in S : \A y \in S : x >= y

(* variant of Erode: a zero border value instead of the default one *)
ErodeZeroBorder(m, h, w) ==
    [c \in Cells(h, w) |->
        IF Cardinality(Neighbours(c, h, w)) < 9 THEN 0
        ELSE SetMin({m[d] : d \in Neighbours(c, h, w)})]

(* Line 44: cv2.erode(mask, kernel, iterations=1) *)
Erode(m, h, w) ==
    [c \in Cells(h, w) |-> SetMin({m[d] : d \in Neighbours(c, h, w)})]

(* Line 45: one pass of cv2.dilate(mask, kernel, iterations=2) *)
DilatePass(m, h, w) ==
    [c \in Cells(h, w) |-> SetMax({m[d] : d \in Neighbours(c, h, w)})]

Dilate(m, h, w) == DilatePass(DilatePass(m, h, w), h, w)

----------------------------------------------------------------------------
(* variant of CopySharesMemory: frame_no_spill is a view of frame *)
CopyIsView == TRUE

(* Line 47: frame.copy().astype(np.float32).  The copy owns its buffer: the
   in-place write of line 51 does not reach the caller's frame. *)
CopySharesMemory == FALSE

ToFloat(f) == [c \in Cells(f.h, f.w) |-> [k \in 1..3 |-> f.px[c][k] * FixOne]]

(* Line 49: (frame_no_spill[..., 0] + frame_no_spill[..., 2]) / 2 *)
RedBlue(p) == (p[1] + p[3]) \div 2

(* variant of MaskAboveEps: the epsilon test passes every mask value *)
MaskNotNegative(m) == m * 100 >= 0

(* Line 50, second operand: mask > 0.05 *)
MaskAboveEps(m) == m * 100 > 5 * MaskOne

(* Line 50: spill_mask = (green > red_blue) & (mask > 0.05) *)
SpillMask(p, m) == p[2] > RedBlue(p) /\ MaskAboveEps(m)

(* Line 51, right-hand side:
   red_blue * (1 - spill_suppress) + green * spill_suppress *)
SpillGreen(rb, green, s) == (rb * (SpillDen - s) + green * s) \div SpillDen

(* Lines 48-51 on the whole array *)
SuppressSpill(fns, m, s) ==
    [c \in DOMAIN fns |->
        IF SpillMask(fns[c], m[c])
        THEN [fns[c] EXCEPT ![2] = SpillGreen(RedBlue(fns[c]), fns[c][2], s)]
        ELSE fns[c]]

(* A float32 value stored into a uint8 array: truncation *)
ToUint8(v, one) == (v \div one) % 256

(* NumPy broadcasting of the (H, W, 3) product with the (h, w, 3) background *)
Broadcastable(fs, bs) ==
    /\ (fs[1] = bs[1] \/ fs[1] = 1 \/ bs[1] = 1)
    /\ (fs[2] = bs[2] \/ fs[2] = 1 \/ bs[2] = 1)

BroadcastIndex(i, len) == IF len = 1 THEN 1 ELSE i

(* Line 54 on one channel value, scaled by FixOne * MaskOne:
   frame_no_spill * (1 - mask_3c) + bg.astype(np.float32) * mask_3c *)
BlendValue(fv, bv, m) == fv * (MaskOne - m) + bv * FixOne * m

(* Lines 53-55: mask_3c, the alpha blend and the cast to uint8 *)
AlphaBlend(fns, m, h, w, b) ==
    IF ~Broadcastable(<<h, w>>, Shape(b))
    THEN [exc |-> "ValueError"]
    ELSE LET rh == Max2(h, b.h)
             rw == Max2(w, b.w)
         IN  [h |-> rh, w |-> rw,
              px |-> [c \in Cells(rh, rw) |->
                  LET fc == <<BroadcastIndex(c[1], h), BroadcastIndex(c[2], w)>>
                      bc == <<BroadcastIndex(c[1], b.h), BroadcastIndex(c[2], b.w)>>
                  IN  [k \in 1..3 |->
                          ToUint8(BlendValue(fns[fc][k], b.px[bc][k], m[fc]),
                                  FixOne * MaskOne)]]]

----------------------------------------------------------------------------
(* Inputs of advanced_chroma_key drawn by Init *)

(* key green, key green with some red and blue, skin tone with a green
   excess (outside the key range), red *)
Palette == << <<0, 255, 0>>, <<100, 200, 100>>, <<90, 160, 200>>, <<0, 0, 255>> >>
BgPalette == << <<255, 0, 0>>, <<255, 255, 255>>, <<10, 20, 30>> >>

(* a frame of colour c0 with a block of colour c1 in rows 1..r, columns a..b-1 *)
BlockFrame(h, w, c0, c1, r, a, b) ==
    [h |-> h, w |-> w,
     px |-> [c \in Cells(h, w) |->
                IF c[1] <= r /\ a <= c[2] /\ c[2] < b THEN Palette[c1] ELSE Palette[c0]]]

(* the blocks drawn: the top row or the full height; columns from the left
   edge to any column, or one single column anywhere *)
BlockRows(h) == {1, h}
BlockColumns(w) == {<<1, b>> : b \in 2..(w + 1)} \cup {<<a, a + 1>> : a \in 1..w}

BgFrame(h, w, seed) ==
    [h |-> h, w |-> w,
     px |-> [c \in Cells(h, w) |-> BgPalette[((c[1] + 2 * c[2] + seed) % 3) + 1]]]

(* the background shapes tried against an (h, w) frame *)
BgShapes(h, w) ==
    {<<h, w>>, <<1, w>>, <<h, 1>>, <<h + 1, w>>}

FeatherInputs == {1, 3}
SpillInputs == {0, 1, SpillDen}

MainIdle ==
    /\ mpc = "idle" /\ cap_len = 0 /\ cap_pos = 0 /\ cur = None
    /\ frame_shape = None /\ bg_img = None /\ bgv_len = 0 /\ bgv_pos = 0
    /\ bg_mode = 0 /\ mbg = None /\ ret_bg = FALSE /\ bg_reads = <<>>
    /\ calls = <<>> /\ mresult = None /\ written = <<>>

Init ==
    /\ pc = "threshold"
    /\ \E h \in 1..MaxH, w \in 1..MaxW, c0 \in DOMAIN Palette, c1 \in DOMAIN Palette :
          \E r \in BlockRows(h), ab \in BlockColumns(w) :
              frame = BlockFrame(h, w, c0, c1, r, ab[1], ab[2])
    /\ \E bs \in BgShapes(frame.h, frame.w) : bg = BgFrame(bs[1], bs[2], 0)
    /\ frame_in = frame
    /\ bg_in = bg
    /\ feather_radius \in FeatherInputs
    /\ spill_suppress \in SpillInputs
    /\ mask = None
    /\ frame_no_spill = None
    /\ pre_spill = None
    /\ result = None
    /\ MainIdle

(* Lines 37-39 *)
Threshold ==
    /\ pc = "threshold"
    /\ mask' = ThresholdMask(frame, GREEN_LOWER, GREEN_UPPER)
    /\ pc' = "blur"
    /\ UNCHANGED <<frame, bg, frame_in, bg_in, feather_radius, spill_suppress,
                   frame_no_spill, pre_spill, result, mvars>>

(* Line 40 *)
Blur ==
    /\ pc = "blur"
    /\ mask' = GaussianBlur(mask, frame.h, frame.w, feather_radius)
    /\ pc' = "clip"
    /\ UNCHANGED <<frame, bg, frame_in, bg_in, feather_radius, spill_suppress,
                   frame_no_spill, pre_spill, result, mvars>>

(* Line 41 *)
ClipMask ==
    /\ pc = "clip"
    /\ mask' = Clip(mask)
    /\ pc' = "erode"
    /\ UNCHANGED <<frame, bg, frame_in, bg_in, feather_radius, spill_suppress,
                   frame_no_spill, pre_spill, result, mvars>>

(* Lines 43-44 *)
ErodeMask ==
    /\ pc = "erode"
    /\ mask' = Erode(mask, frame.h, frame.w)
    /\ pc' = "dilate"
    /\ UNCHANGED <<frame, bg, frame_in, bg_in, feather_radius, spill_suppress,
                   frame_no_spill, pre_spill, result, mvars>>

(* Line 45 *)
DilateMask ==
    /\ pc = "dilate"
    /\ mask' = Dilate(mask, frame.h, frame.w)
    /\ pc' = "copy"
    /\ UNCHANGED <<frame, bg, frame_in, bg_in, feather_radius, spill_suppress,
                   frame_no_spill, pre_spill, result, mvars>>

(* Line 47 *)
CopyFrame ==
    /\ pc = "copy"
    /\ frame_no_spill' = ToFloat(frame)
    /\ pre_spill' = ToFloat(frame)
    /\ pc' = "spill"
    /\ UNCHANGED <<frame, bg, frame_in, bg_in, feather_radius, spill_suppress,
                   mask, result, mvars>>

(* Lines 48-51: the write goes through frame_no_spill[..., 1]; were the
   buffer shared with frame, frame would receive it (cast to uint8) *)
Spill ==
    /\ pc = "spill"
    /\ frame_no_spill' = SuppressSpill(frame_no_spill, mask, spill_suppress)
    /\ frame' = IF CopySharesMemory
                THEN [frame EXCEPT !.px =
                        [c \in Cells(frame.h, frame.w) |->
                            [k \in 1..3 |-> ToUint8(frame_no_spill'[c][k], FixOne)]]]
                ELSE frame
    /\ pc' = "blend"
    /\ UNCHANGED <<bg, frame_in, bg_in, feather_radius, spill_suppress,
                   mask, pre_spill, result, mvars>>

(* Lines 53-55 *)
Blend ==
    /\ pc = "blend"
    /\ result' = AlphaBlend(frame_no_spill, mask, frame.h, frame.w, bg)
    /\ pc' = IF Broadcastable(Shape(frame), Shape(bg)) THEN "done" ELSE "raised"
    /\ UNCHANGED <<frame, bg, frame_in, bg_in, feather_radius, spill_suppress,
                   mask, frame_no_spill, pre_spill, mvars>>

Next == Threshold \/ Blur \/ ClipMask \/ ErodeMask \/ DilateMask
            \/ CopyFrame \/ Spill \/ Blend

Spec == Init /\ [][Next]_vars

----------------------------------------------------------------------------
(* main *)

(* shapes (height, width) the video source may deliver, and the native
   shapes of the background image and of the background video *)
SrcShapes == {<<2, 3>>, <<3, 2>>}
BgImageNativeShape == <<4, 5>>
BgVideoNativeShape == <<1, 2>>

(* PIL Image.resize((width, height)) and cv2.resize(img, (width, height)):
   the array that comes back has shape (height, width) *)
ResizedShape(size) == <<size[2], size[1]>>

(* variant of LoadBackgroundSize: (height, width) handed to resize *)
LoadBackgroundSizeSwapped(fs) == <<fs[1], fs[2]>>

(* Lines 60-64: load_background(bg_path, frame_shape) *)
LoadBackgroundSize(fs) == <<fs[2], fs[1]>>
load_background(fs) ==
    [kind |-> "image", idx |-> 0, shape |-> ResizedShape(LoadBackgroundSize(fs))]

(* Line 117: cv2.resize(bg, (frame_shape[1], frame_shape[0])) *)
VideoResizeSize(fs) == <<fs[2], fs[1]>>

(* Lines 87-89: BACKGROUND_VIDEO is a non-empty path, so bg_vid_cap is a
   VideoCapture object (truthy), opened or not *)
bg_vid_cap == TRUE

(* Lines 115, 119: np.zeros_like(frame) *)
zeros_like(f) == [kind |-> "black", idx |-> 0, shape |-> f.shape]

(* variant of RewindPosition: the position is not reset *)
RewindPositionKept(pos) == pos

(* Line 111: bg_vid_cap.set(cv2.CAP_PROP_POS_FRAMES, 0) *)
RewindPosition(pos) == 0

(* Python's None where main holds an array *)
NoArray == [kind |-> "None", idx |-> 0, shape |-> <<0, 0>>]

(* the frame indices 0 .. n-1 in order *)
FirstFrames(n) == [i \in 1..n |-> i - 1]

CompositorIdle ==
    /\ pc = "idle" /\ frame = None /\ bg = None /\ frame_in = None
    /\ bg_in = None /\ feather_radius = 15 /\ spill_suppress = None
    /\ mask = None /\ frame_no_spill = None /\ pre_spill = None
    /\ result = None

InitMain ==
    /\ CompositorIdle
    /\ mpc = "open"
    /\ cap_len \in 0..MaxFrames
    /\ cap_pos = 0
    /\ cur = None
    /\ frame_shape = None
    /\ bg_img = None
    /\ bgv_len \in 0..MaxBgFrames
    /\ bgv_pos = 0
    /\ bg_mode = 0
    /\ mbg = NoArray
    /\ ret_bg = FALSE
    /\ bg_reads = <<>>
    /\ calls = <<>>
    /\ mresult = None
    /\ written = <<>>

(* Lines 75-78 *)
OpenSource ==
    /\ mpc = "open"
    /\ \E opened \in BOOLEAN : mpc' = IF opened THEN "first" ELSE "exit"
    /\ UNCHANGED <<cap_len, cap_pos, cur, frame_shape, bg_img, bgv_len, bgv_pos,
                   bg_mode, mbg, ret_bg, bg_reads, calls, mresult, written, cvars>>

(* Lines 81-84 *)
ReadFirst ==
    /\ mpc = "first"
    /\ IF cap_pos < cap_len
       THEN /\ \E sh \in SrcShapes : cur' = [idx |-> cap_pos, shape |-> sh]
            /\ cap_pos' = cap_pos + 1
            /\ mpc' = "setup"
       ELSE /\ mpc' = "exit"
            /\ UNCHANGED <<cur, cap_pos>>
    /\ UNCHANGED <<cap_len, frame_shape, bg_img, bgv_len, bgv_pos,
                   bg_mode, mbg, ret_bg, bg_reads, calls, mresult, written, cvars>>

(* Lines 85-99 *)
Setup ==
    /\ mpc = "setup"
    /\ frame_shape' = cur.shape
    /\ bg_img' = load_background(cur.shape)
    /\ bgv_pos' = 0
    /\ bg_mode' = 0
    /\ mpc' = "loop"
    /\ UNCHANGED <<cap_len, cap_pos, cur, bgv_len, mbg, ret_bg, bg_reads,
                   calls, mresult, written, cvars>>

(* Lines 102-104 *)
LoopRead ==
    /\ mpc = "loop"
    /\ IF cap_pos < cap_len
       THEN /\ \E sh \in SrcShapes : cur' = [idx |-> cap_pos, shape |-> sh]
            /\ cap_pos' = cap_pos + 1
            /\ mpc' = "select"
       ELSE /\ mpc' = "release"
            /\ UNCHANGED <<cur, cap_pos>>
    /\ bg_reads' = <<>>
    /\ UNCHANGED <<cap_len, frame_shape, bg_img, bgv_len, bgv_pos,
                   bg_mode, mbg, ret_bg, calls, mresult, written, cvars>>

(* Lines 106-107 *)
SelectImage ==
    /\ mpc = "select"
    /\ bg_mode = 0
    /\ mbg' = bg_img
    /\ mpc' = "call"
    /\ UNCHANGED <<cap_len, cap_pos, cur, frame_shape, bg_img, bgv_len, bgv_pos,
                   bg_mode, ret_bg, bg_reads, calls, mresult, written, cvars>>

(* bg_vid_cap.read(): a frame and an advance, or (False, None); a read can
   fail before the end of the stream (decode error), never succeed past it *)
VideoRead(ok) ==
    /\ ok => bgv_pos < bgv_len
    /\ ret_bg' = ok
    /\ mbg' = IF ok THEN [kind |-> "video", idx |-> bgv_pos, shape |-> BgVideoNativeShape]
              ELSE NoArray
    /\ bgv_pos' = IF ok THEN bgv_pos + 1 ELSE bgv_pos
    /\ bg_reads' = Append(bg_reads, [ok |-> ok, at |-> bgv_pos])

(* Lines 108-109 *)
BgVideoRead ==
    /\ mpc = "select"
    /\ bg_mode # 0
    /\ bg_mode = 1 /\ bg_vid_cap
    /\ \E ok \in BOOLEAN : VideoRead(ok)
    /\ mpc' = "bg_retry"
    /\ UNCHANGED <<cap_len, cap_pos, cur, frame_shape, bg_img, bgv_len,
                   bg_mode, calls, mresult, written, cvars>>

(* Lines 110-112 *)
BgVideoRewind ==
    /\ mpc = "bg_retry"
    /\ IF ~ret_bg \/ mbg = NoArray
       THEN \E ok \in BOOLEAN :
              /\ ok => RewindPosition(bgv_pos) < bgv_len
              /\ ret_bg' = ok
              /\ mbg' = IF ok THEN [kind |-> "video", idx |-> RewindPosition(bgv_pos),
                                    shape |-> BgVideoNativeShape]
                        ELSE NoArray
              /\ bgv_pos' = IF ok THEN RewindPosition(bgv_pos) + 1
                            ELSE RewindPosition(bgv_pos)
              /\ bg_reads' = Append(bg_reads, [ok |-> ok, at |-> RewindPosition(bgv_pos)])
       ELSE UNCHANGED <<ret_bg, mbg, bgv_pos, bg_reads>>
    /\ mpc' = "bg_finish"
    /\ UNCHANGED <<cap_len, cap_pos, cur, frame_shape, bg_img, bgv_len,
                   bg_mode, calls, mresult, written, cvars>>

(* Lines 113-117 *)
BgVideoFinish ==
    /\ mpc = "bg_finish"
    /\ mbg' = IF ~ret_bg \/ mbg = NoArray
              THEN zeros_like(cur)
              ELSE [mbg EXCEPT !.shape = ResizedShape(VideoResizeSize(frame_shape))]
    /\ mpc' = "call"
    /\ UNCHANGED <<cap_len, cap_pos, cur, frame_shape, bg_img, bgv_len, bgv_pos,
                   bg_mode, ret_bg, bg_reads, calls, mresult, written, cvars>>

(* Lines 118-119 *)
SelectBlack ==
    /\ mpc = "select"
    /\ bg_mode # 0
    /\ ~(bg_mode = 1 /\ bg_vid_cap)
    /\ mbg' = zeros_like(cur)
    /\ mpc' = "call"
    /\ UNCHANGED <<cap_len, cap_pos, cur, frame_shape, bg_img, bgv_len, bgv_pos,
                   bg_mode, ret_bg, bg_reads, calls, mresult, written, cvars>>

(* Line 121: the call; a ValueError of the blend is not caught by main *)
CallChromaKey ==
    /\ mpc = "call"
    /\ calls' = Append(calls, cur.idx)
    /\ IF Broadcastable(cur.shape, mbg.shape)
       THEN /\ mresult' = [idx |-> cur.idx, bg |-> mbg,
                           shape |-> <<Max2(cur.shape[1], mbg.shape[1]),
                                       Max2(cur.shape[2], mbg.shape[2])>>]
            /\ mpc' = "write"
       ELSE /\ mresult' = [exc |-> "ValueError"]
            /\ mpc' = "crashed"
    /\ UNCHANGED <<cap_len, cap_pos, cur, frame_shape, bg_img, bgv_len, bgv_pos,
                   bg_mode, mbg, ret_bg, bg_reads, written, cvars>>

(* Lines 123-125 *)
ShowAndWrite ==
    /\ mpc = "write"
    /\ written' = Append(written, mresult.idx)
    /\ mpc' = "key"
    /\ UNCHANGED <<cap_len, cap_pos, cur, frame_shape, bg_img, bgv_len, bgv_pos,
                   bg_mode, mbg, ret_bg, bg_reads, calls, mresult, cvars>>

(* Lines 127-136 *)
KeyPress ==
    /\ mpc = "key"
    /\ \E key \in {"q", "b", "s", "none"} :
         /\ mpc' = IF key = "q" THEN "release" ELSE "loop"
         /\ bg_mode' = IF key = "b" THEN (bg_mode + 1) % 3 ELSE bg_mode
    /\ UNCHANGED <<cap_len, cap_pos, cur, frame_shape, bg_img, bgv_len, bgv_pos,
                   mbg, ret_bg, bg_reads, calls, mresult, written, cvars>>

(* Lines 137-141: INPUT_VIDEO is 0, so no audio is attached *)
Release ==
    /\ mpc = "release"
    /\ mpc' = "done"
    /\ UNCHANGED <<cap_len, cap_pos, cur, frame_shape, bg_img, bgv_len, bgv_pos,
                   bg_mode, mbg, ret_bg, bg_reads, calls, mresult, written, cvars>>

NextMain == OpenSource \/ ReadFirst \/ Setup \/ LoopRead \/ SelectImage
              \/ BgVideoRead \/ BgVideoRewind \/ BgVideoFinish \/ SelectBlack
              \/ CallChromaKey \/ ShowAndWrite \/ KeyPress \/ Release

SpecMain == InitMain /\ [][NextMain]_vars

----------------------------------------------------------------------------
(* Properties of advanced_chroma_key, checked under Spec *)

Returned == pc \in {"done", "raised"}
AfterSpill == pc \in {"blend", "done", "raised"}
WellFormed == Shape(frame_in) = Shape(bg_in)
InKey(p) == InRange(BGR2HSV(p), GREEN_LOWER, GREEN_UPPER) = 255
AllCells == Cells(frame_in.h, frame_in.w)

(* C1: a call whose background differs from the frame in height or width
   always ends in an error; no composited frame is returned. *)
C1_MismatchAlwaysRaises ==
    (Returned /\ ~WellFormed) => (pc = "raised" /\ result = [exc |-> "ValueError"])

(* C2: a well-formed call leaves frame and bg unchanged pixel for pixel at
   every step, and returns a frame of the input frame's height, width and
   channel count; the write of spill suppression reaches only the copy. *)
C2_InputsUnchangedSameShape ==
    WellFormed =>
        /\ frame = frame_in
        /\ bg = bg_in
        /\ pc = "done" =>
              /\ Shape(result) = Shape(frame_in)
              /\ DOMAIN result.px = DOMAIN frame_in.px
              /\ \A c \in AllCells : DOMAIN result.px[c] = DOMAIN frame_in.px[c]

C2_Witness ==
    /\ pc = "done"
    /\ WellFormed
    /\ frame_no_spill # pre_spill
    /\ result.px # frame_in.px

(* the blend the specification gives for spill suppression *)
DocumentedGreen(rb, green, s) == (rb * s + green * (SpillDen - s)) \div SpillDen

(* C3: where green > average(red, blue) and mask > 0.05 the green channel
   becomes avgRedBlue * s + oldGreen * (1 - s), the other channels stay;
   every other pixel is left unchanged by the step. *)
C3_SpillFormulaAsDocumented ==
    AfterSpill =>
        \A c \in AllCells :
            IF SpillMask(pre_spill[c], mask[c])
            THEN frame_no_spill[c] =
                    [pre_spill[c] EXCEPT ![2] =
                        DocumentedGreen(RedBlue(pre_spill[c]), pre_spill[c][2],
                                        spill_suppress)]
            ELSE frame_no_spill[c] = pre_spill[c]

(* C4: at a pixel that satisfies the spill condition, a strength s2 at least
   the strength used gives a green value no greater than the one computed. *)
C4_SpillMonotone ==
    AfterSpill =>
        \A c \in AllCells :
            SpillMask(pre_spill[c], mask[c]) =>
                \A s2 \in SpillInputs :
                    s2 >= spill_suppress =>
                        SpillGreen(RedBlue(pre_spill[c]), pre_spill[c][2], s2)
                            <= frame_no_spill[c][2]

(* C5: a pixel whose final mask value is 0 comes out equal to the input
   pixel in all three channels, whatever the background; a pixel with
   green <= average(red, blue) passes spill suppression unchanged. *)
C5_IdentityBound ==
    /\ (pc = "done" /\ WellFormed) =>
          \A c \in AllCells : mask[c] = 0 => result.px[c] = frame_in.px[c]
    /\ AfterSpill =>
          \A c \in AllCells :
              2 * frame_in.px[c][2] <= frame_in.px[c][1] + frame_in.px[c][3]
                  => \A k \in 1..3 : frame_no_spill[c][k] = frame_in.px[c][k] * FixOne

C5_Witness ==
    /\ pc = "done"
    /\ WellFormed
    /\ spill_suppress < SpillDen
    /\ \E c \in AllCells :
          /\ mask[c] = 0
          /\ 2 * frame_in.px[c][2] > frame_in.px[c][1] + frame_in.px[c][3]
          /\ bg_in.px[c] # frame_in.px[c]
    /\ \E d \in AllCells : mask[d] > 0
    /\ \E e \in AllCells :
          2 * frame_in.px[e][2] <= frame_in.px[e][1] + frame_in.px[e][3]

(* C6: when every pixel of the frame lies in the key range, the mask is 1.0
   at every pixel (the interior ones among them) after each step from the
   threshold to the second dilation, and the output pixel equals the
   background pixel in all three channels. *)
C6_FullMaskBound ==
    (\A c \in AllCells : InKey(frame_in.px[c])) =>
        /\ pc # "threshold" => \A c \in AllCells : mask[c] = MaskOne
        /\ (pc = "done" /\ WellFormed) =>
              \A c \in AllCells : result.px[c] = bg_in.px[c]

C6_Witness ==
    /\ pc = "done"
    /\ WellFormed
    /\ feather_radius = 3
    /\ \A c \in AllCells : InKey(frame_in.px[c])
    /\ \E c \in AllCells :
          /\ 1 < c[1] /\ c[1] < frame_in.h /\ 1 < c[2] /\ c[2] < frame_in.w
          /\ frame_in.px[c][3] > 0
          /\ mask[c] = MaskOne
          /\ result.px[c] = bg_in.px[c]
    /\ result.px # frame_in.px

InUnit(m) == \A c \in DOMAIN m : 0 <= m[c] /\ m[c] <= MaskOne

(* C7: after normalization every mask value lies in [0,1] at every step
   (threshold, blur, clip, erosion, each dilation pass, spill suppression,
   blend), and every channel value of the blend lies in [0,255] before the
   cast to 8 bits. *)
C7_MaskRange ==
    /\ pc # "threshold" => InUnit(mask)
    /\ pc = "dilate" => InUnit(DilatePass(mask, frame_in.h, frame_in.w))
    /\ (pc = "blend" /\ WellFormed) =>
          \A c \in AllCells : \A k \in 1..3 :
              /\ 0 <= BlendValue(frame_no_spill[c][k], bg.px[c][k], mask[c])
              /\ BlendValue(frame_no_spill[c][k], bg.px[c][k], mask[c])
                    <= 255 * FixOne * MaskOne

C7_Witness ==
    /\ pc = "blend"
    /\ WellFormed
    /\ \E c \in AllCells : 0 < mask[c] /\ mask[c] < MaskOne
    /\ \E c \in AllCells : mask[c] = MaskOne
    /\ frame_no_spill # pre_spill

----------------------------------------------------------------------------
(* Properties of main, checked under SpecMain *)

(* C8: in video mode a failed read of the background video is followed by
   a reset to frame 0 and one more read; a second read that succeeds gives
   the background (resized to the frame size), a second failure gives a
   black background, and the loop goes on instead of aborting. *)
C8_BackgroundVideoPolicy ==
    /\ (mpc = "call" /\ bg_mode = 1) =>
          /\ Len(bg_reads) \in {1, 2}
          /\ Len(bg_reads) = 1 =>
                /\ bg_reads[1].ok
                /\ mbg = [kind |-> "video", idx |-> bg_reads[1].at,
                          shape |-> frame_shape]
          /\ Len(bg_reads) = 2 =>
                /\ ~bg_reads[1].ok
                /\ bg_reads[2].at = 0
                /\ mbg = IF bg_reads[2].ok
                         THEN [kind |-> "video", idx |-> 0, shape |-> frame_shape]
                         ELSE [kind |-> "black", idx |-> 0, shape |-> cur.shape]
    /\ mpc = "crashed" => mbg.kind # "black"

C8_Witness ==
    /\ mpc = "loop"
    /\ bg_mode = 1
    /\ Len(bg_reads) = 2
    /\ ~bg_reads[2].ok
    /\ mbg.kind = "black"
    /\ bgv_pos = 0
    /\ bgv_len > 0
    /\ Len(written) >= 3
    /\ cap_pos < cap_len

(* C9: every frame read from the source, the first included, is passed to
   advanced_chroma_key once and its result written once, in read order. *)
C9_EveryFrameProcessedOnce ==
    mpc = "done" => (calls = FirstFrames(cap_pos) /\ written = calls)

(* C10: at every call of advanced_chroma_key made by main, whatever bg_mode
   and whatever the background reads returned, the background has the
   height and width of the first frame whenever the current frame has. *)
C10_BackgroundMatchesFrameShape ==
    /\ bg_mode \in 0..2
    /\ (mpc = "call" /\ cur.shape = frame_shape) =>
          /\ mbg.shape = frame_shape
          /\ Broadcastable(cur.shape, mbg.shape)

C10_Witness ==
    /\ mpc = "call"
    /\ cur.shape = frame_shape
    /\ bg_mode = 0
    /\ mbg.kind = "image"
    /\ Len(calls) >= 3
    /\ bgv_pos > 0

====
